---- MODULE Spec2Model ----
(***************************************************************************)
(* Model of the text RPG of src/rpg_texto.py (class Juego and its command  *)
(* handlers).  One action per command of the dispatcher loop; the random   *)
(* rolls and the player's typed arguments are the actions' inputs.          *)
(***************************************************************************)
EXTENDS Integers, Sequences, FiniteSets, TLC

VARIABLES
    jugador,            \* Juego.jugador : Jugador
    salas,              \* Juego.salas : sala id -> Sala
    misiones,           \* Juego.misiones : mision id -> Mision
    objetos,            \* Juego.objetos : object id -> Objeto, the catalog
    enemigos_template,  \* Juego.enemigos_template : enemy id -> Enemigo
    enemigo_actual,     \* Juego.enemigo_actual : Enemigo or NoEnemigo
    running,            \* Juego.running
    archivo,            \* contents of SAVE_FILE, NoArchivo when it does not exist
    ultimo,             \* history: the last command dispatched and its outcome
    sala_encuentro,     \* history: room in which enemigo_actual was cloned
    derrotas,           \* history: enemy id -> number of calls of victoria
    golpes,             \* history: the calls of calcular_dano (see Registrar)
    presentadas,        \* history: the intro lines printed for the last instance cloned
    repetidos,          \* history: events that reached a completed mission
    pasos,              \* history: number of commands dispatched so far
    trpg                \* text_rpg.py: its Game, NoTrpg while rpg_texto.py runs

vars == <<jugador, salas, misiones, objetos, enemigos_template, enemigo_actual,
          running, archivo, ultimo, sala_encuentro, derrotas, golpes, presentadas, repetidos,
          pasos, trpg>>

-----------------------------------------------------------------------------
(* Bounds of the model *)

\* Commands dispatched in a run of Spec
MaxPasos == 4

\* Commands dispatched in a run of SpecCombate
MaxPasosCombate == 3

\* Commands dispatched in a run of SpecMisiones
MaxPasosMisiones == 6

\* Largest required count of a mission in SpecMisiones
MaxCantidad == 2

\* Commands dispatched in a run of SpecEquipo
MaxPasosEquipo == 5

\* Largest attack bonus of the second weapon of the catalog in SpecEquipo
MaxBono == 3

\* Calls of recalcular_equipo in a run of SpecRecalcular
MaxLlamadas == 2

\* Largest ataque and defensa the player starts with in SpecRecalcular
MaxStat == 8

\* Calls of aplicar_estados in a run of SpecEstados
MaxTicks == 3

\* Largest remaining duration of a status effect at the start of SpecEstados
MaxTurnos == 2

\* Largest vida of the player and of the enemy at the start of SpecEstados
MaxVidaEstados == 6

\* Steps of text_rpg.py in a run of SpecTexto
MaxPasosTexto == 6

\* Largest hp of the player in the savegame.json SpecTexto starts with
MaxHpGuardado == 4

\* Commands of rpg_texto.py dispatched in a run of SpecDerrota
MaxPasosDerrota == 3

\* Largest vida of the player at the start of SpecDerrota
MaxVidaDerrota == 4

\* Commands dispatched in a run of SpecCargar
MaxPasosCargar == 3

\* Visits to the sanctuary in a run of SpecSantuario
MaxPasosSantuario == 2

\* Commands atacar in a run of SpecAturdido
MaxPasosAturdido == 2

\* Largest gold of the player at the start of SpecSantuario
MaxOroSantuario == 32

\* Largest attack and defense handed to calcular_dano in SpecDano
MaxAtqPrueba == 8

MaxDefPrueba == 8

\* Largest defense of the goblin template in SpecCombate
MaxDefCombate == 1

\* Largest hit points of the goblin template in SpecCombate (the least is 10)
MaxVidaPrueba == 10

-----------------------------------------------------------------------------
(* Constants of the program *)

COSTO_ESTADO == 10

VERSION == 1

None == "None"

NoArg == "<sin argumento>"

NoEnemigo == [id |-> None]

NoArchivo == [existe |-> FALSE]

\* text_rpg.py is not the program running
NoTrpg == [activo |-> FALSE]

ICONOS_ESTADOS == {"veneno", "quemadura", "aturdido", "sangrado"}

Variaciones == -2 .. 2

-----------------------------------------------------------------------------
(* Python dict and list primitives *)

Get(d, k, def) == IF k \in DOMAIN d THEN d[k] ELSE def

Put(d, k, v) == [x \in (DOMAIN d) \cup {k} |-> IF x = k THEN v ELSE d[x]]

Del(d, k) == [x \in (DOMAIN d) \ {k} |-> d[x]]

EnLista(s, x) == \E i \in 1 .. Len(s) : s[i] = x

ListaRemove(s, x) ==
    LET i == CHOOSE n \in 1 .. Len(s) :
                 s[n] = x /\ \A m \in 1 .. (n - 1) : s[m] # x
    IN  SubSeq(s, 1, i - 1) \o SubSeq(s, i + 1, Len(s))

Max(a, b) == IF a >= b THEN a ELSE b

Min(a, b) == IF a <= b THEN a ELSE b

\* int(x * 1.5): the product truncated toward zero
IntMedio(x) == IF x >= 0 THEN (3 * x) \div 2 ELSE -((3 * (-x)) \div 2)

-----------------------------------------------------------------------------
(* SEED: the data the game is constructed from *)

SeedObjetos ==
    [pocion         |-> [tipo |-> "consumible", efecto |-> [vida |-> 10]],
     antidoto       |-> [tipo |-> "consumible", efecto |-> [estado |-> "veneno"]],
     espada_oxidada |-> [tipo |-> "equipable",
                         efecto |-> [ataque |-> 2, slot |-> "arma"]],
     armadura_cuero |-> [tipo |-> "equipable",
                         efecto |-> [defensa |-> 2, slot |-> "armadura"]],
     gema_bril      |-> [tipo |-> "clave", efecto |-> <<>>]]

SeedEnemigos ==
    [goblin        |-> [id |-> "goblin", nivel |-> 1, vida_max |-> 12, vida |-> 12,
                        ataque |-> 4, defensa |-> 1, botin |-> <<"pocion">>,
                        oro |-> 5, jefe |-> FALSE, estados |-> <<>>],
     lobo          |-> [id |-> "lobo", nivel |-> 1, vida_max |-> 15, vida |-> 15,
                        ataque |-> 5, defensa |-> 2, botin |-> <<>>,
                        oro |-> 3, jefe |-> FALSE, estados |-> <<>>],
     esqueleto     |-> [id |-> "esqueleto", nivel |-> 2, vida_max |-> 18, vida |-> 18,
                        ataque |-> 6, defensa |-> 3, botin |-> <<"antidoto">>,
                        oro |-> 7, jefe |-> FALSE, estados |-> <<>>],
     dragon_grunon |-> [id |-> "dragon_grunon", nivel |-> 5, vida_max |-> 40,
                        vida |-> 40, ataque |-> 8, defensa |-> 5,
                        botin |-> <<"gema_bril">>, oro |-> 50, jefe |-> TRUE,
                        estados |-> <<>>]]

SeedSalas ==
    [pueblo |-> [conexiones |-> [norte |-> "bosque", este |-> "cueva"],
                 objetos |-> <<"pocion">>, enemigos |-> <<>>, santuario |-> TRUE],
     bosque |-> [conexiones |-> [sur |-> "pueblo", este |-> "ruinas"],
                 objetos |-> <<"antidoto">>, enemigos |-> <<"goblin", "lobo">>,
                 santuario |-> FALSE],
     ruinas |-> [conexiones |-> [oeste |-> "bosque"],
                 objetos |-> <<"espada_oxidada">>, enemigos |-> <<"esqueleto">>,
                 santuario |-> FALSE],
     cueva  |-> [conexiones |-> [oeste |-> "pueblo"],
                 objetos |-> <<>>, enemigos |-> <<"dragon_grunon">>,
                 santuario |-> FALSE]]

SeedMisiones ==
    [madera  |-> [tipo |-> "recolectar", objetivo |-> "antidoto", cantidad |-> 1,
                  recompensa |-> [oro |-> 10], progreso |-> 0, completada |-> FALSE],
     cazador |-> [tipo |-> "derrotar", objetivo |-> "goblin", cantidad |-> 1,
                  recompensa |-> [oro |-> 15], progreso |-> 0, completada |-> FALSE],
     dragon  |-> [tipo |-> "derrotar", objetivo |-> "dragon_grunon", cantidad |-> 1,
                  recompensa |-> [oro |-> 100], progreso |-> 0, completada |-> FALSE]]

\* Jugador(nombre=nombre): the dataclass defaults
JugadorNuevo ==
    [nivel |-> 1, xp |-> 0, vida_max |-> 30, vida |-> 30, mana_max |-> 10,
     mana |-> 10, oro |-> 0, ataque |-> 5, defensa |-> 2, inventario |-> <<>>,
     estados |-> <<>>,
     equipo |-> [arma |-> None, armadura |-> None, accesorio |-> None],
     sala |-> "pueblo"]

\* What the player can type as an argument
Direcciones == {"norte", "sur", "este", "oeste"}

IdsObjetos == DOMAIN objetos

IdsEnemigos == DOMAIN SeedEnemigos

Slots == {"arma", "armadura", "accesorio"}

-----------------------------------------------------------------------------
(* Methods of the dataclasses and module-level functions *)

Jugador_esta_vivo(j) == j.vida > 0

Enemigo_esta_vivo(e) == e.vida > 0

modificar_vida(j, cantidad) ==
    [j EXCEPT !.vida = Max(0, Min(j.vida_max, j.vida + cantidad))]

\* Mutant of calcular_dano: the floor of the damage is 0 instead of 1
calcular_dano_sin_piso(atq, defe, variacion, critico) ==
    LET dano == Max(0, atq + variacion - defe)
    IN  IF critico THEN IntMedio(dano) ELSE dano

\* Mutant of calcular_dano: the critical damage is rounded up, not truncated
calcular_dano_redondeo(atq, defe, variacion, critico) ==
    LET dano == Max(1, atq + variacion - defe)
    IN  IF critico THEN (3 * dano + 1) \div 2 ELSE dano

\* calcular_dano with its two random draws made explicit:
\* variacion = random.randint(-2, 2), critico = (random.random() < CRITICO)
calcular_dano(atq, defe, variacion, critico) ==
    LET dano == Max(1, atq + variacion - defe)
    IN  IF critico THEN IntMedio(dano) ELSE dano

-----------------------------------------------------------------------------
(* Juego: auxiliaries *)

\* Juego.objetos, the immutable catalog built by __init__
sala_actual == salas[jugador.sala]

\* Enemigo(**asdict(plantilla)): a copy of every field of the template
clonar_enemigo(eid) == enemigos_template[eid]

RECURSIVE SumaDanoEstados(_, _)
SumaDanoEstados(est, pendientes) ==
    IF pendientes = {} THEN 0
    ELSE LET e == CHOOSE x \in pendientes : TRUE
             d == CASE e = "veneno" -> 3
                    [] e = "quemadura" -> 2
                    [] e = "sangrado" -> est[e]
                    [] OTHER -> 0
         IN  d + SumaDanoEstados(est, pendientes \ {e})

\* The value left in obj.estados[e] by one pass of the loop body for (e, t)
TurnosTrasTick(e, t) ==
    LET guardado == IF e = "sangrado" THEN t + 1 ELSE t
    IN  guardado - 1

aplicar_estados(obj) ==
    LET est    == obj.estados
        tras   == [e \in DOMAIN est |-> TurnosTrasTick(e, est[e])]
        quitar == {e \in DOMAIN est : tras[e] <= 0}
    IN  [obj EXCEPT !.vida = @ - SumaDanoEstados(est, DOMAIN est),
                    !.estados = [e \in (DOMAIN est) \ quitar |-> tras[e]]]

RECURSIVE SumaBono(_, _, _)
SumaBono(equipo, slots, stat) ==
    IF slots = {} THEN 0
    ELSE LET s == CHOOSE x \in slots : TRUE
             b == IF equipo[s] = None THEN 0
                  ELSE Get(objetos[equipo[s]].efecto, stat, 0)
         IN  b + SumaBono(equipo, slots \ {s}, stat)

\* Mutant of recalcular_equipo: the base values are left out
recalcular_equipo_sin_base(j) ==
    [j EXCEPT !.ataque = SumaBono(j.equipo, DOMAIN j.equipo, "ataque"),
              !.defensa = SumaBono(j.equipo, DOMAIN j.equipo, "defensa")]

\* Mutant of recalcular_equipo: the bonuses are added to the current values
recalcular_equipo_acumula(j) ==
    [j EXCEPT !.ataque = @ + SumaBono(j.equipo, DOMAIN j.equipo, "ataque"),
              !.defensa = @ + SumaBono(j.equipo, DOMAIN j.equipo, "defensa")]

recalcular_equipo(j) ==
    [j EXCEPT !.ataque = 5 + SumaBono(j.equipo, DOMAIN j.equipo, "ataque"),
              !.defensa = 2 + SumaBono(j.equipo, DOMAIN j.equipo, "defensa")]

\* Mutant of MisionCoincide: a completed mission still takes the event
MisionCoincide_sin_completada(m, tipo, objetivo) ==
    m.tipo = tipo /\ m.objetivo = objetivo

\* The test of the loop body of actualizar_misiones for mission m
MisionCoincide(m, tipo, objetivo) ==
    m.tipo = tipo /\ m.objetivo = objetivo /\ ~m.completada

\* Mutant of AvanzarMision: an event for a completed mission opens it again
AvanzarMision_reabre(m, tipo, objetivo) ==
    IF MisionCoincide(m, tipo, objetivo)
    THEN LET p == m.progreso + 1
         IN  [m EXCEPT !.progreso = p,
                       !.completada = IF p >= m.cantidad THEN TRUE ELSE @]
    ELSE IF m.tipo = tipo /\ m.objetivo = objetivo
    THEN [m EXCEPT !.progreso = 0, !.completada = FALSE]
    ELSE m

\* Mission m after one pass of the loop body
AvanzarMision(m, tipo, objetivo) ==
    IF MisionCoincide(m, tipo, objetivo)
    THEN LET p == m.progreso + 1
         IN  [m EXCEPT !.progreso = p,
                       !.completada = IF p >= m.cantidad THEN TRUE ELSE @]
    ELSE m

\* The gold one pass of the loop body adds to jugador.oro
RecompensaMision(m, tipo, objetivo) ==
    IF MisionCoincide(m, tipo, objetivo) /\ m.progreso + 1 >= m.cantidad
    THEN Get(m.recompensa, "oro", 0)
    ELSE 0

RECURSIVE SumaRecompensas(_, _, _, _)
SumaRecompensas(ms, pendientes, tipo, objetivo) ==
    IF pendientes = {} THEN 0
    ELSE LET k == CHOOSE x \in pendientes : TRUE
         IN  RecompensaMision(ms[k], tipo, objetivo)
               + SumaRecompensas(ms, pendientes \ {k}, tipo, objetivo)

\* History: the missions of this (tipo, objetivo) that were already completed
EventosRepetidos(ms, tipo, objetivo) ==
    Cardinality({k \in DOMAIN ms : /\ ms[k].tipo = tipo
                                   /\ ms[k].objetivo = objetivo
                                   /\ ms[k].completada})

\* Returns the player and the missions after the call
actualizar_misiones(j, ms, tipo, objetivo) ==
    [jugador   |-> [j EXCEPT !.oro = @ + SumaRecompensas(ms, DOMAIN ms, tipo, objetivo)],
     misiones  |-> [k \in DOMAIN ms |-> AvanzarMision(ms[k], tipo, objetivo)],
     repetidos |-> EventosRepetidos(ms, tipo, objetivo)]

RECURSIVE AgregarBotin(_, _)
AgregarBotin(inv, botin) ==
    IF botin = <<>> THEN inv
    ELSE AgregarBotin(Put(inv, Head(botin), Get(inv, Head(botin), 0) + 1),
                      Tail(botin))

\* Returns the player, the missions and the rooms after victoria(enemigo)
victoria(j, ms, ss, enemigo) ==
    LET j1 == [j EXCEPT !.oro = @ + enemigo.oro,
                        !.inventario = AgregarBotin(@, enemigo.botin)]
        am == actualizar_misiones(j1, ms, "derrotar", enemigo.id)
        sid == am.jugador.sala
    IN  [jugador  |-> am.jugador,
         misiones |-> am.misiones,
         repetidos |-> am.repetidos,
         salas    |-> IF EnLista(ss[sid].enemigos, enemigo.id)
                      THEN [ss EXCEPT ![sid].enemigos = ListaRemove(@, enemigo.id)]
                      ELSE ss]

aplicar_objeto(j, obj) ==
    LET efecto == obj.efecto
        j1 == IF "vida" \in DOMAIN efecto
              THEN modificar_vida(j, efecto["vida"]) ELSE j
    IN  IF "estado" \in DOMAIN efecto /\ efecto["estado"] \in DOMAIN j1.estados
        THEN [j1 EXCEPT !.estados = Del(@, efecto["estado"])]
        ELSE j1

\* inv[obj] -= 1; if inv[obj] <= 0: del inv[obj]
\* Mutant of QuitarUno: the unit stays in the inventory
QuitarUno_conserva(inv, obj) == inv

\* Mutant of QuitarUno: the entry is kept when its count reaches 0
QuitarUno_sin_borrar(inv, obj) == Put(inv, obj, inv[obj] - 1)

\* inv[obj] -= 1; if inv[obj] <= 0: del inv[obj]
QuitarUno(inv, obj) ==
    IF inv[obj] - 1 <= 0 THEN Del(inv, obj) ELSE Put(inv, obj, inv[obj] - 1)

\* inv.get(obj) as a truth value
Tiene(inv, obj) == Get(inv, obj, 0) # 0

-----------------------------------------------------------------------------
(* The dispatcher loop of Juego.iniciar and the commands *)

\* Mutant of Despachar: the loop condition leaves out the player's vida
Despachar_sin_vida == running

\* The loop condition: a command is read only while this holds
\* (and the process has not ended by an exception that no handler caught)
Despachar == running /\ Jugador_esta_vivo(jugador) /\ ultimo # "excepcion"

\* History: the outcome of the command just dispatched, and their number
Hecho(res) ==
    /\ ultimo' = res
    /\ pasos' = pasos + 1

\* The same, for a rejected command and for one that only prints
SinEfecto(res) == Hecho(res)

\* History, kept only where Init asks for it (activo): tiradas holds the call
\* of calcular_dano for the player's last blow, n counts the player's blows of
\* the encounter, and base tells that each of them drew variacion 0 and no
\* critical.  A blow that starts an encounter (nuevo) starts the count anew.
Registrar(g, nuevo, t1) ==
    IF ~g.activo THEN g
    ELSE [activo  |-> TRUE,
          tiradas |-> <<t1>>,
          n       |-> IF nuevo THEN 1 ELSE g.n + 1,
          base    |-> (nuevo \/ g.base) /\ t1.variacion = 0 /\ ~t1.critico]

SinRegistro == [activo |-> FALSE, tiradas |-> <<>>, n |-> 0, base |-> TRUE]

cmd_ir(direccion) ==
    /\ Despachar
    /\ IF direccion # NoArg /\ direccion \in DOMAIN sala_actual.conexiones
       THEN LET j1 == [jugador EXCEPT !.sala = sala_actual.conexiones[direccion]]
                am == actualizar_misiones(j1, misiones, "visitar", j1.sala)
            IN  /\ jugador' = am.jugador
                /\ misiones' = am.misiones
                /\ repetidos' = repetidos + am.repetidos
                /\ Hecho("ir")
       ELSE /\ UNCHANGED <<jugador, misiones, repetidos>>
            /\ SinEfecto("rechazado")
    /\ UNCHANGED <<salas, objetos, enemigos_template, presentadas, trpg, enemigo_actual,
                   running, archivo, sala_encuentro, derrotas, golpes>>

cmd_tomar(obj) ==
    /\ Despachar
    /\ IF obj # NoArg /\ EnLista(sala_actual.objetos, obj)
       THEN LET j1 == [jugador EXCEPT
                          !.inventario = Put(@, obj, Get(@, obj, 0) + 1)]
                am == actualizar_misiones(j1, misiones, "recolectar", obj)
            IN  /\ salas' = [salas EXCEPT
                                ![jugador.sala].objetos = ListaRemove(@, obj)]
                /\ jugador' = am.jugador
                /\ misiones' = am.misiones
                /\ repetidos' = repetidos + am.repetidos
                /\ Hecho("tomar")
       ELSE /\ UNCHANGED <<jugador, misiones, salas, repetidos>>
            /\ SinEfecto("rechazado")
    /\ UNCHANGED <<objetos, enemigos_template, presentadas, trpg, enemigo_actual,
                   running, archivo, sala_encuentro, derrotas, golpes>>

cmd_soltar(obj) ==
    /\ Despachar
    /\ IF obj # NoArg /\ Tiene(jugador.inventario, obj)
       THEN /\ jugador' = [jugador EXCEPT !.inventario = QuitarUno(@, obj)]
            /\ salas' = [salas EXCEPT ![jugador.sala].objetos = Append(@, obj)]
            /\ Hecho("soltar")
       ELSE /\ UNCHANGED <<jugador, salas>>
            /\ SinEfecto("rechazado")
    /\ UNCHANGED <<misiones, objetos, enemigos_template, presentadas, trpg,
                   enemigo_actual, running, archivo, sala_encuentro, derrotas,
                   repetidos, golpes>>

cmd_usar(obj) ==
    /\ Despachar
    /\ IF obj # NoArg /\ Tiene(jugador.inventario, obj) /\ obj \in DOMAIN objetos
       THEN LET j1 == aplicar_objeto(jugador, objetos[obj])
            IN  /\ jugador' = [j1 EXCEPT !.inventario = QuitarUno(@, obj)]
                /\ Hecho("usar")
       ELSE /\ UNCHANGED jugador
            /\ SinEfecto("rechazado")
    /\ UNCHANGED <<salas, misiones, objetos, enemigos_template, presentadas, trpg,
                   enemigo_actual, running, archivo, sala_encuentro, derrotas,
                   repetidos, golpes>>

\* Mutant of DevolverActual: the item taken out of the slot is lost
DevolverActual_pierde(inv, actual) == inv

\* if actual: inventario[actual] = inventario.get(actual, 0) + 1
DevolverActual(inv, actual) ==
    IF actual # None THEN Put(inv, actual, Get(inv, actual, 0) + 1) ELSE inv

cmd_equipar(obj) ==
    /\ Despachar
    /\ IF obj # NoArg /\ Tiene(jugador.inventario, obj) /\ obj \in DOMAIN objetos
       THEN IF objetos[obj].tipo # "equipable"
       THEN /\ UNCHANGED jugador
            /\ SinEfecto("rechazado")
       ELSE LET slot   == objetos[obj].efecto["slot"]
                actual == Get(jugador.equipo, slot, None)
                inv1   == DevolverActual(jugador.inventario, actual)
                j1     == [jugador EXCEPT
                              !.equipo = Put(@, slot, obj),
                              !.inventario = QuitarUno(inv1, obj)]
            IN  /\ jugador' = recalcular_equipo(j1)
                /\ Hecho(IF actual # None THEN "reemplazo" ELSE "equipar")
       ELSE /\ UNCHANGED jugador
            /\ SinEfecto("rechazado")
    /\ UNCHANGED <<salas, misiones, objetos, enemigos_template, presentadas, trpg,
                   enemigo_actual, running, archivo, sala_encuentro, derrotas,
                   repetidos, golpes>>

cmd_desequipar(slot) ==
    /\ Despachar
    /\ LET actual == IF slot = NoArg THEN None ELSE Get(jugador.equipo, slot, None)
       IN  IF actual # None
           THEN LET j1 == [jugador EXCEPT
                              !.inventario = Put(@, actual, Get(@, actual, 0) + 1),
                              !.equipo = Put(@, slot, None)]
                IN  /\ jugador' = recalcular_equipo(j1)
                    /\ Hecho("desequipar")
           ELSE /\ UNCHANGED jugador
                /\ SinEfecto("rechazado")
    /\ UNCHANGED <<salas, misiones, objetos, enemigos_template, presentadas, trpg,
                   enemigo_actual, running, archivo, sala_encuentro, derrotas,
                   repetidos, golpes>>

EnCombate == enemigo_actual # NoEnemigo /\ Enemigo_esta_vivo(enemigo_actual)

\* Mutant of EnemigoObjetivo: naming an enemy of the catalog starts it afresh
EnemigoObjetivo_clona(arg) ==
    IF EnCombate /\ arg \notin IdsEnemigos THEN enemigo_actual ELSE clonar_enemigo(arg)

\* The enemy a dispatched "atacar arg" strikes: the engaged one, else a new clone
EnemigoObjetivo(arg) == IF EnCombate THEN enemigo_actual ELSE clonar_enemigo(arg)

\* Mutant of Presentacion: a boss speaks its intro line at every atacar
Presentacion_siempre(enemigo) ==
    IF enemigo.jefe THEN presentadas + 1 ELSE presentadas

\* The intro lines printed for the instance struck, after the first branch of
\* cmd_atacar: one for a Jefe just cloned, none for any other clone, and no
\* print when the engaged enemy is continued
Presentacion(enemigo) ==
    IF EnCombate THEN presentadas ELSE IF enemigo.jefe THEN 1 ELSE 0

AtaqueRechazado(arg) ==
    ~EnCombate /\ (arg = NoArg \/ ~EnLista(sala_actual.enemigos, arg))

\* The outcomes of one call calcular_dano(atq, defe): one per pair of draws
\* variacion = random.randint(-2, 2), critico = (random.random() < CRITICO)
Tiradas(atq, defe) ==
    {[atq |-> atq, defe |-> defe, variacion |-> v, critico |-> c,
      dano |-> calcular_dano(atq, defe, v, c)] :
        v \in Variaciones, c \in BOOLEAN}

\* The same outcomes by the damage alone
Danos(atq, defe) == {[dano |-> t.dano] : t \in Tiradas(atq, defe)}

\* The outcomes of the player's blow: the draws are kept apart only where the
\* history records them
Resultados(atq, defe) ==
    IF golpes.activo THEN Tiradas(atq, defe) ELSE Danos(atq, defe)

\* The enemy's turn of cmd_atacar, after the blow left the enemy (herido) alive;
\* t2 is the outcome of the enemy's calcular_dano
TurnoEnemigo(herido, t2) ==
    LET e2     == aplicar_estados(herido)
        dano_e == t2.dano
        j2     == modificar_vida(jugador, -dano_e)
    IN  /\ enemigo_actual' = e2
        /\ sala_encuentro' = IF EnCombate THEN sala_encuentro ELSE jugador.sala
        /\ UNCHANGED <<salas, misiones, derrotas, repetidos>>
        /\ IF ~Jugador_esta_vivo(j2)
           THEN /\ jugador' = j2
                /\ running' = FALSE
                /\ Hecho("derrota")
           ELSE /\ jugador' = aplicar_estados(j2)
                /\ UNCHANGED running
                /\ Hecho("ronda")

\* Mutant of TurnoVictoria: the dying enemy still strikes back
TurnoVictoria_con_represalia(herido) ==
    LET v == victoria(jugador, misiones, salas, herido)
    IN  /\ jugador' = modificar_vida(v.jugador,
                          -calcular_dano(herido.ataque, jugador.defensa, 0, FALSE))
        /\ misiones' = v.misiones
        /\ salas' = v.salas
        /\ enemigo_actual' = NoEnemigo
        /\ sala_encuentro' = None
        /\ derrotas' = [derrotas EXCEPT ![herido.id] = @ + 1]
        /\ repetidos' = repetidos + v.repetidos
        /\ UNCHANGED running
        /\ Hecho("victoria")

\* The call self.victoria(enemigo) of cmd_atacar and its return
TurnoVictoria(herido) ==
    LET v == victoria(jugador, misiones, salas, herido)
    IN  /\ jugador' = v.jugador
        /\ misiones' = v.misiones
        /\ salas' = v.salas
        /\ enemigo_actual' = NoEnemigo
        /\ sala_encuentro' = None
        /\ derrotas' = [derrotas EXCEPT ![herido.id] = @ + 1]
        /\ repetidos' = repetidos + v.repetidos
        /\ UNCHANGED running
        /\ Hecho("victoria")

cmd_atacar(arg) ==
    /\ Despachar
    /\ IF AtaqueRechazado(arg)
       THEN /\ UNCHANGED <<jugador, salas, misiones, enemigo_actual, running,
                           sala_encuentro, derrotas, repetidos, golpes,
                           presentadas>>
            /\ SinEfecto("rechazado")
       ELSE LET enemigo == EnemigoObjetivo(arg)
            IN  /\ presentadas' = Presentacion(enemigo)
                /\ \E t1 \in Resultados(jugador.ataque, enemigo.defensa) :
                     LET dano   == t1.dano
                         herido == [enemigo EXCEPT !.vida = @ - dano]
                     IN  IF ~Enemigo_esta_vivo(herido)
                         THEN /\ TurnoVictoria(herido)
                              /\ golpes' = Registrar(golpes, ~EnCombate, t1)
                         ELSE \E t2 \in Danos(aplicar_estados(herido).ataque,
                                              jugador.defensa) :
                                /\ TurnoEnemigo(herido, t2)
                                /\ golpes' = Registrar(golpes, ~EnCombate, t1)
    /\ UNCHANGED <<objetos, enemigos_template, trpg, archivo>>

\* Mutant of cmd_huir: the enemy strikes before the player gets away
cmd_huir_con_golpe ==
    /\ Despachar
    /\ IF EnCombate
       THEN \E exito \in BOOLEAN :
              \E t \in Danos(enemigo_actual.ataque, jugador.defensa) :
                 /\ jugador' = modificar_vida(jugador, -t.dano)
                 /\ enemigo_actual' = IF exito THEN NoEnemigo ELSE enemigo_actual
                 /\ sala_encuentro' = IF exito THEN None ELSE sala_encuentro
                 /\ UNCHANGED golpes
                 /\ Hecho(IF exito THEN "escapa" ELSE "falla")
       ELSE /\ UNCHANGED <<jugador, enemigo_actual, sala_encuentro, golpes>>
            /\ SinEfecto("sin_pelea")
    /\ UNCHANGED <<salas, misiones, objetos, enemigos_template, presentadas, trpg, running,
                   archivo, derrotas, repetidos>>

cmd_huir ==
    /\ Despachar
    /\ IF EnCombate
       THEN \E exito \in BOOLEAN :
              IF exito
              THEN /\ enemigo_actual' = NoEnemigo
                   /\ sala_encuentro' = None
                   /\ UNCHANGED <<jugador, golpes>>
                   /\ Hecho("escapa")
              ELSE \E t \in Danos(enemigo_actual.ataque, jugador.defensa) :
                     LET dano == t.dano
                     IN  /\ jugador' = modificar_vida(jugador, -dano)
                         /\ UNCHANGED <<enemigo_actual, sala_encuentro, golpes>>
                         /\ Hecho("falla")
       ELSE /\ UNCHANGED <<jugador, enemigo_actual, sala_encuentro, golpes>>
            /\ SinEfecto("sin_pelea")
    /\ UNCHANGED <<salas, misiones, objetos, enemigos_template, presentadas, trpg,
                   running, archivo, derrotas, repetidos>>

\* respuesta is whether the answer starts with "s"
ofrecer_mision_micro(j, respuesta) ==
    IF respuesta THEN [j EXCEPT !.oro = @ + 5] ELSE j

\* Mutant of CostoTodo: the discount is left out
CostoTodo_sin_descuento(n) == n * COSTO_ESTADO

\* int(len(estados) * COSTO_ESTADO * DESCUENTO_SANTUARIO), the discount being 0.8
CostoTodo(n) == (n * COSTO_ESTADO * 8) \div 10

\* eleccion is "todo", the effect the typed index selects, or anything else
cmd_santuario ==
    /\ Despachar
    /\ IF ~sala_actual.santuario \/ DOMAIN jugador.estados = {}
       THEN UNCHANGED jugador /\ SinEfecto("rechazado")
       ELSE \E eleccion \in (DOMAIN jugador.estados) \cup {"todo", "invalida"} :
              LET costo == IF eleccion = "todo"
                           THEN CostoTodo(Cardinality(DOMAIN jugador.estados))
                           ELSE COSTO_ESTADO
              IN  IF eleccion = "invalida"
                  THEN UNCHANGED jugador /\ SinEfecto("rechazado")
                  ELSE IF jugador.oro < costo
                  THEN \E respuesta \in BOOLEAN :
                         /\ jugador' = ofrecer_mision_micro(jugador, respuesta)
                         /\ Hecho("sin_oro")
                  ELSE IF eleccion = "todo"
                  THEN /\ jugador' = [jugador EXCEPT !.oro = @ - costo,
                                                     !.estados = [e \in {} |-> 0]]
                       /\ Hecho("curar_todo")
                  ELSE /\ jugador' = [jugador EXCEPT !.oro = @ - costo,
                                                     !.estados = Del(@, eleccion)]
                       /\ Hecho("curar_uno")
    /\ UNCHANGED <<salas, misiones, objetos, enemigos_template, presentadas, trpg,
                   enemigo_actual, running, archivo, sala_encuentro, derrotas,
                   repetidos, golpes>>

\* A record of the save document that is absent or that the dataclass
\* constructor refuses (KeyError, TypeError)
Malformado == [malformado |-> TRUE]

\* asdict and json.dump: what the document holds for a player; None is
\* written as null
Jugador_a_json(j) ==
    LET eq == j.equipo
    IN  [j EXCEPT !.equipo = [sl \in DOMAIN eq |->
                                 IF eq[sl] = None THEN "null" ELSE eq[sl]]]

\* Mutant of Jugador_de_json: null is not read back as None
Jugador_de_json_sin_none(d) == d

\* json.load and Jugador(**datos["jugador"]): null is read as None
Jugador_de_json(d) ==
    LET eq == d.equipo
    IN  [d EXCEPT !.equipo = [sl \in DOMAIN eq |->
                                 IF eq[sl] = "null" THEN None ELSE eq[sl]]]

cmd_guardar ==
    /\ Despachar
    /\ archivo' = [existe |-> TRUE, legible |-> TRUE, version |-> VERSION,
                   jugador |-> Jugador_a_json(jugador),
                   salas |-> salas, misiones |-> misiones]
    /\ Hecho("guardar")
    /\ UNCHANGED <<jugador, salas, misiones, objetos, enemigos_template, presentadas, trpg,
                   enemigo_actual, running, sala_encuentro, derrotas, repetidos,
                   golpes>>

\* The three assignments of cmd_cargar run in order; the first record that is
\* Malformado raises out of the handler and of the loop of iniciar, with the
\* assignments before it done
cmd_cargar ==
    /\ Despachar
    /\ IF ~archivo.existe \/ ~archivo.legible \/ archivo.version # VERSION
       THEN /\ UNCHANGED <<jugador, salas, misiones>>
            /\ SinEfecto("no_cargado")
       ELSE IF archivo.jugador = Malformado
       THEN /\ UNCHANGED <<jugador, salas, misiones>>
            /\ Hecho("excepcion")
       ELSE IF archivo.salas = Malformado
       THEN /\ jugador' = Jugador_de_json(archivo.jugador)
            /\ UNCHANGED <<salas, misiones>>
            /\ Hecho("excepcion")
       ELSE IF archivo.misiones = Malformado
       THEN /\ jugador' = Jugador_de_json(archivo.jugador)
            /\ salas' = archivo.salas
            /\ UNCHANGED misiones
            /\ Hecho("excepcion")
       ELSE /\ jugador' = Jugador_de_json(archivo.jugador)
            /\ salas' = archivo.salas
            /\ misiones' = archivo.misiones
            /\ Hecho("cargar")
    /\ UNCHANGED <<objetos, enemigos_template, presentadas, trpg, enemigo_actual, running,
                   archivo, sala_encuentro, derrotas, repetidos, golpes>>

\* respuesta is whether the answer to the confirmation starts with "s"
cmd_salir(respuesta) ==
    /\ Despachar
    /\ running' = (IF respuesta THEN FALSE ELSE running)
    /\ IF respuesta THEN Hecho("salir") ELSE SinEfecto("consulta")
    /\ UNCHANGED <<jugador, salas, misiones, objetos, enemigos_template, presentadas,
                   trpg, enemigo_actual, archivo, sala_encuentro, derrotas, repetidos,
                   golpes>>

\* ayuda, mirar, hablar, inventario, estado, misiones: they only print
cmd_consulta ==
    /\ Despachar
    /\ SinEfecto("consulta")
    /\ UNCHANGED <<jugador, salas, misiones, objetos, enemigos_template, presentadas,
                   trpg, enemigo_actual, running, archivo, sala_encuentro, derrotas,
                   repetidos, golpes>>

\* Mutant of VerboDesconocido: during an encounter the enemy takes its turn
VerboDesconocido_con_turno ==
    /\ Despachar
    /\ jugador' = IF EnCombate
                  THEN modificar_vida(jugador,
                          -calcular_dano(enemigo_actual.ataque, jugador.defensa,
                                         0, FALSE))
                  ELSE jugador
    /\ SinEfecto("rechazado")
    /\ UNCHANGED <<salas, misiones, objetos, enemigos_template, presentadas, trpg,
                   enemigo_actual, running, archivo, sala_encuentro, derrotas,
                   repetidos, golpes>>

\* A verb that COMANDOS does not hold: "No entiendo."
VerboDesconocido ==
    /\ Despachar
    /\ SinEfecto("rechazado")
    /\ UNCHANGED <<jugador, salas, misiones, objetos, enemigos_template, presentadas,
                   trpg, enemigo_actual, running, archivo, sala_encuentro, derrotas,
                   repetidos, golpes>>

-----------------------------------------------------------------------------
(* Spec: the game constructed from SEED, every command *)

Init ==
    /\ jugador = JugadorNuevo
    /\ salas = SeedSalas
    /\ misiones = SeedMisiones
    /\ objetos = SeedObjetos
    /\ enemigos_template = SeedEnemigos
    /\ enemigo_actual = NoEnemigo
    /\ running = TRUE
    /\ archivo = NoArchivo
    /\ ultimo = "inicio"
    /\ sala_encuentro = None
    /\ presentadas = 0
    /\ derrotas = [e \in IdsEnemigos |-> 0]
    /\ golpes = SinRegistro
    /\ repetidos = 0
    /\ pasos = 0
    /\ trpg = NoTrpg

\* What the player types after "atacar".  During an encounter the handler
\* never reads it, so two arguments stand for all.
ArgsAtacar ==
    IF EnCombate THEN {NoArg, "goblin"} ELSE IdsEnemigos \cup {NoArg}

Next ==
    /\ pasos < MaxPasos
    /\ \/ \E d \in Direcciones \cup {NoArg} : cmd_ir(d)
       \/ \E o \in IdsObjetos \cup {NoArg} : cmd_tomar(o)
       \/ \E o \in IdsObjetos \cup {NoArg} : cmd_soltar(o)
       \/ \E o \in IdsObjetos \cup {NoArg} : cmd_usar(o)
       \/ \E o \in IdsObjetos \cup {NoArg} : cmd_equipar(o)
       \/ \E s \in Slots \cup {NoArg} : cmd_desequipar(s)
       \/ \E a \in ArgsAtacar : cmd_atacar(a)
       \/ cmd_huir
       \/ cmd_santuario
       \/ cmd_guardar
       \/ cmd_cargar
       \/ \E r \in BOOLEAN : cmd_salir(r)
       \/ cmd_consulta
       \/ VerboDesconocido

Spec == Init /\ [][Next]_vars

-----------------------------------------------------------------------------
(* SpecDano: calcular_dano applied to attacks and defenses of a bounded range *)

ConRegistro == [activo |-> TRUE, tiradas |-> <<>>, n |-> 0, base |-> TRUE]

InitDano ==
    /\ jugador = JugadorNuevo
    /\ salas = SeedSalas
    /\ misiones = SeedMisiones
    /\ objetos = SeedObjetos
    /\ enemigos_template = SeedEnemigos
    /\ enemigo_actual = NoEnemigo
    /\ running = TRUE
    /\ archivo = NoArchivo
    /\ ultimo = "inicio"
    /\ sala_encuentro = None
    /\ presentadas = 0
    /\ derrotas = [e \in IdsEnemigos |-> 0]
    /\ golpes = ConRegistro
    /\ repetidos = 0
    /\ pasos = 0
    /\ trpg = NoTrpg

\* One call calcular_dano(atq, defe), its outcome kept in golpes.tiradas
TirarDano(atq, defe) ==
    /\ \E t \in Tiradas(atq, defe) : golpes' = [golpes EXCEPT !.tiradas = <<t>>]
    /\ UNCHANGED <<jugador, salas, misiones, objetos, enemigos_template, presentadas,
                   trpg, enemigo_actual, running, archivo, ultimo, sala_encuentro,
                   derrotas, repetidos, pasos>>

NextDano == \E atq \in 0 .. MaxAtqPrueba, defe \in 0 .. MaxDefPrueba : TirarDano(atq, defe)

SpecDano == InitDano /\ [][NextDano]_vars

-----------------------------------------------------------------------------
(* SpecCombate: the game constructed from SEED with the goblin's hit points  *)
(* and defense drawn from a bounded range, the player standing in the forest *)
(* (the state "ir norte" leaves); the attack command                         *)

VidasPrueba == 10 .. MaxVidaPrueba

InitCombate ==
    /\ jugador = [JugadorNuevo EXCEPT !.sala = SeedSalas["pueblo"].conexiones["norte"]]
    /\ salas = SeedSalas
    /\ misiones = SeedMisiones
    /\ objetos = SeedObjetos
    /\ \E hp \in VidasPrueba, d \in 0 .. MaxDefCombate :
         enemigos_template =
            [SeedEnemigos EXCEPT !["goblin"].vida = hp,
                                 !["goblin"].vida_max = hp,
                                 !["goblin"].defensa = d]
    /\ enemigo_actual = NoEnemigo
    /\ running = TRUE
    /\ archivo = NoArchivo
    /\ ultimo = "inicio"
    /\ sala_encuentro = None
    /\ presentadas = 0
    /\ derrotas = [e \in IdsEnemigos |-> 0]
    /\ golpes = ConRegistro
    /\ repetidos = 0
    /\ pasos = 0
    /\ trpg = NoTrpg

NextCombate ==
    /\ pasos < MaxPasosCombate
    /\ \E a \in ArgsAtacar : cmd_atacar(a)

SpecCombate == InitCombate /\ [][NextCombate]_vars

-----------------------------------------------------------------------------
(* SpecMisiones: the game constructed from SEED with the missions' required  *)
(* count drawn from a bounded range; moving, taking and dropping             *)

InitMisiones ==
    /\ jugador = JugadorNuevo
    /\ salas = SeedSalas
    /\ \E c \in 1 .. MaxCantidad :
         misiones = [k \in DOMAIN SeedMisiones |->
                        [SeedMisiones[k] EXCEPT !.cantidad = c]]
    /\ objetos = SeedObjetos
    /\ enemigos_template = SeedEnemigos
    /\ enemigo_actual = NoEnemigo
    /\ running = TRUE
    /\ archivo = NoArchivo
    /\ ultimo = "inicio"
    /\ sala_encuentro = None
    /\ presentadas = 0
    /\ derrotas = [e \in IdsEnemigos |-> 0]
    /\ golpes = SinRegistro
    /\ repetidos = 0
    /\ pasos = 0
    /\ trpg = NoTrpg

NextMisiones ==
    /\ pasos < MaxPasosMisiones
    /\ \/ \E d \in Direcciones \cup {NoArg} : cmd_ir(d)
       \/ \E o \in IdsObjetos \cup {NoArg} : cmd_tomar(o)
       \/ \E o \in IdsObjetos \cup {NoArg} : cmd_soltar(o)

SpecMisiones == InitMisiones /\ [][NextMisiones]_vars

-----------------------------------------------------------------------------
(* SpecEquipo: the game constructed from data that hold a second weapon in   *)
(* the catalog, the equipables in the first room and an enemy next to them;  *)
(* the commands that reach the inventory, the equipment and the encounter    *)

CatalogoEquipo(bono) ==
    Put(SeedObjetos, "espada_fina",
        [tipo |-> "equipable", efecto |-> [ataque |-> bono, slot |-> "arma"]])

ObjetosEquipo ==
    <<"espada_oxidada", "espada_oxidada", "espada_fina", "armadura_cuero">>

InitEquipo ==
    /\ jugador = JugadorNuevo
    /\ salas = [SeedSalas EXCEPT !["pueblo"].objetos = ObjetosEquipo,
                                 !["pueblo"].enemigos = <<"goblin">>]
    /\ misiones = SeedMisiones
    /\ \E bono \in 2 .. MaxBono : objetos = CatalogoEquipo(bono)
    /\ enemigos_template = [SeedEnemigos EXCEPT !["goblin"].vida = 3,
                                                !["goblin"].vida_max = 3,
                                                !["goblin"].ataque = 0]
    /\ enemigo_actual = NoEnemigo
    /\ running = TRUE
    /\ archivo = NoArchivo
    /\ ultimo = "inicio"
    /\ sala_encuentro = None
    /\ presentadas = 0
    /\ derrotas = [e \in IdsEnemigos |-> 0]
    /\ golpes = SinRegistro
    /\ repetidos = 0
    /\ pasos = 0
    /\ trpg = NoTrpg

NextEquipo ==
    /\ pasos < MaxPasosEquipo
    /\ \/ \E o \in IdsObjetos \cup {NoArg} : cmd_tomar(o)
       \/ \E o \in IdsObjetos \cup {NoArg} : cmd_soltar(o)
       \/ \E o \in IdsObjetos \cup {NoArg} : cmd_usar(o)
       \/ \E o \in IdsObjetos \cup {NoArg} : cmd_equipar(o)
       \/ \E s \in Slots \cup {NoArg} : cmd_desequipar(s)
       \/ \E a \in ArgsAtacar : cmd_atacar(a)
       \/ cmd_huir
       \/ cmd_guardar
       \/ cmd_cargar

SpecEquipo == InitEquipo /\ [][NextEquipo]_vars

-----------------------------------------------------------------------------
(* SpecRecalcular: recalcular_equipo called on a player whose equipment and  *)
(* whose ataque and defensa are drawn from bounded sets                      *)

InitRecalcular ==
    /\ \E bono \in 2 .. MaxBono : objetos = CatalogoEquipo(bono)
    /\ \E a \in 0 .. MaxStat, d \in 0 .. MaxStat,
          arma \in {None, "espada_oxidada", "espada_fina"},
          armadura \in {None, "armadura_cuero"} :
         jugador = [JugadorNuevo EXCEPT
                       !.ataque = a, !.defensa = d,
                       !.equipo = [arma |-> arma, armadura |-> armadura,
                                   accesorio |-> None]]
    /\ salas = SeedSalas
    /\ misiones = SeedMisiones
    /\ enemigos_template = SeedEnemigos
    /\ enemigo_actual = NoEnemigo
    /\ running = TRUE
    /\ archivo = NoArchivo
    /\ ultimo = "inicio"
    /\ sala_encuentro = None
    /\ presentadas = 0
    /\ derrotas = [e \in IdsEnemigos |-> 0]
    /\ golpes = SinRegistro
    /\ repetidos = 0
    /\ pasos = 0
    /\ trpg = NoTrpg

\* One call of Juego.recalcular_equipo
Recalcular ==
    /\ pasos < MaxLlamadas
    /\ jugador' = recalcular_equipo(jugador)
    /\ Hecho("recalcular")
    /\ UNCHANGED <<salas, misiones, objetos, enemigos_template, presentadas, trpg,
                   enemigo_actual, running, archivo, sala_encuentro, derrotas,
                   repetidos, golpes>>

NextRecalcular == Recalcular

SpecRecalcular == InitRecalcular /\ [][NextRecalcular]_vars

-----------------------------------------------------------------------------
(* SpecEstados: aplicar_estados called, as cmd_atacar calls it, on a player  *)
(* and on an enemy whose vida and estados are drawn from bounded sets        *)

EstadosPrueba ==
    UNION {[S -> 1 .. MaxTurnos] : S \in SUBSET ICONOS_ESTADOS}

InitEstados ==
    /\ \E v \in 1 .. MaxVidaEstados, est \in EstadosPrueba :
         /\ jugador = [JugadorNuevo EXCEPT !.vida = v, !.estados = est]
         /\ enemigo_actual = [SeedEnemigos["goblin"] EXCEPT !.vida = v,
                                                            !.estados = est]
    /\ salas = SeedSalas
    /\ misiones = SeedMisiones
    /\ objetos = SeedObjetos
    /\ enemigos_template = SeedEnemigos
    /\ running = TRUE
    /\ archivo = NoArchivo
    /\ ultimo = "inicio"
    /\ sala_encuentro = None
    /\ presentadas = 0
    /\ derrotas = [e \in IdsEnemigos |-> 0]
    /\ golpes = SinRegistro
    /\ repetidos = 0
    /\ pasos = 0
    /\ trpg = NoTrpg

\* self.aplicar_estados(self.jugador), reached only with the player alive
TickJugador ==
    /\ pasos < MaxTicks
    /\ Jugador_esta_vivo(jugador)
    /\ jugador' = aplicar_estados(jugador)
    /\ Hecho("tick_jugador")
    /\ UNCHANGED <<salas, misiones, objetos, enemigos_template, presentadas, trpg,
                   enemigo_actual, running, archivo, sala_encuentro, derrotas,
                   repetidos, golpes>>

\* self.aplicar_estados(enemigo), reached only with the enemy alive
TickEnemigo ==
    /\ pasos < MaxTicks
    /\ EnCombate
    /\ enemigo_actual' = aplicar_estados(enemigo_actual)
    /\ Hecho("tick_enemigo")
    /\ UNCHANGED <<jugador, salas, misiones, objetos, enemigos_template, presentadas, trpg,
                   running, archivo, sala_encuentro, derrotas, repetidos, golpes>>

NextEstados == TickJugador \/ TickEnemigo

SpecEstados == InitEstados /\ [][NextEstados]_vars

-----------------------------------------------------------------------------
(* text_rpg.py: Player, Enemy, combat, the scenes and Game.  trpg holds the  *)
(* Game: player, current, the contents of savegame.json, the enemy of the    *)
(* combat under way, the scene that follows it, where the control stands    *)
(* (fase) and, as history, the damage values of the last round (dmg)        *)

NoPlayer == [name |-> None]

NoEnemy == [name |-> None]

NoSave == [existe |-> FALSE]

\* Player(name=name): the dataclass defaults
Player == [name |-> "heroe", hp |-> 30, attack |-> 5, defense |-> 2,
           inventory |-> <<>>]

\* Mutant of Lobo: one more point of defense
Lobo_resistente == [name |-> "Lobo", hp |-> 10, attack |-> 4, defense |-> 2]

\* Enemy('Lobo', 10, 4, 1)
Lobo == [name |-> "Lobo", hp |-> 10, attack |-> 4, defense |-> 1]

Player_is_alive(p) == p.hp > 0

Enemy_is_alive(e) == e.hp > 0

\* Game.load_scenes: per scene, the options in the order they are listed
Scenes ==
    [intro   |-> <<[next |-> "bosque", action |-> "ninguna"],
                   [next |-> "montana", action |-> "ninguna"],
                   [next |-> "intro", action |-> "save"]>>,
     bosque  |-> <<[next |-> "bosque", action |-> "combat"],
                   [next |-> "intro", action |-> "ninguna"]>>,
     montana |-> <<[next |-> "cima", action |-> "ninguna"],
                   [next |-> "intro", action |-> "ninguna"]>>,
     cima    |-> <<[next |-> "intro", action |-> "gritar"],
                   [next |-> "cima", action |-> "descansar"],
                   [next |-> "cima", action |-> "save"]>>]

\* Game.__init__, with what savegame.json holds when the program starts
Game(save) ==
    [activo |-> TRUE, player |-> NoPlayer, current |-> "intro", enemy |-> NoEnemy,
     siguiente |-> None, savegame |-> save, fase |-> "start", dmg |-> <<>>]

\* Mutant of DanoCombate: the floor is 1
DanoCombate_piso_uno(attack, variacion, defense) ==
    Max(1, attack + variacion - defense)

\* max(0, attack + random.randint(-2, 2) - defense)
DanoCombate(attack, variacion, defense) == Max(0, attack + variacion - defense)

\* Mutant of FinDeTurno: the loop of Game.start goes on after a lost combat
FinDeTurno_sin_fin(t, nxt) == [t EXCEPT !.current = nxt, !.fase = "escena"]

\* Game.start, the end of a pass of its loop: self.current = nxt, and break
\* when the player is not alive
FinDeTurno(t, nxt) ==
    [t EXCEPT !.current = nxt,
              !.fase = IF Player_is_alive(t.player) THEN "escena" ELSE "fin"]

\* Game.start up to its loop; cargar is whether the answer starts with "s"
T_Start(cargar) ==
    /\ trpg.activo /\ trpg.fase = "start"
    /\ LET t1 == IF trpg.savegame.existe /\ cargar
                 THEN [trpg EXCEPT !.player = trpg.savegame.player,
                                   !.current = trpg.savegame.current]
                 ELSE trpg
           t2 == IF t1.player = NoPlayer THEN [t1 EXCEPT !.player = Player] ELSE t1
       IN  trpg' = [t2 EXCEPT !.fase = "escena", !.dmg = <<>>]
    /\ Hecho("t_start")
    /\ UNCHANGED <<jugador, salas, misiones, objetos, enemigos_template, presentadas,
                   enemigo_actual, running, archivo, sala_encuentro, derrotas,
                   repetidos, golpes>>

\* Scene.play with a valid choice, and the rest of the pass of the loop when
\* the option's action is not a combat
T_Elegir(i) ==
    /\ trpg.activo /\ trpg.fase = "escena"
    /\ i \in 1 .. Len(Scenes[trpg.current])
    /\ LET selected == Scenes[trpg.current][i]
           t0 == [trpg EXCEPT !.dmg = <<>>]
       IN  CASE selected.action = "combat" ->
                  trpg' = [t0 EXCEPT !.enemy = Lobo, !.siguiente = selected.next,
                                     !.fase = "combate"]
             [] selected.action = "save" ->
                  trpg' = FinDeTurno(
                            [t0 EXCEPT !.savegame =
                                [existe |-> TRUE, player |-> trpg.player,
                                 current |-> trpg.current]],
                            selected.next)
             [] selected.action = "descansar" ->
                  trpg' = FinDeTurno(
                            [t0 EXCEPT !.player.hp = Min(@ + 5, 30)], selected.next)
             [] OTHER -> trpg' = FinDeTurno(t0, selected.next)
    /\ Hecho("t_elegir")
    /\ UNCHANGED <<jugador, salas, misiones, objetos, enemigos_template, presentadas,
                   enemigo_actual, running, archivo, sala_encuentro, derrotas,
                   repetidos, golpes>>

\* One pass of the loop of combat, after Enter; when the loop ends, the return
\* of combat and the rest of the pass of the loop of Game.start
T_Ronda ==
    /\ trpg.activo /\ trpg.fase = "combate"
    /\ \E v1 \in Variaciones :
         LET dmg1   == DanoCombate(trpg.player.attack, v1, trpg.enemy.defense)
             herido == [trpg.enemy EXCEPT !.hp = @ - dmg1]
         IN  IF ~Enemy_is_alive(herido)
             THEN /\ trpg' = FinDeTurno([trpg EXCEPT !.enemy = NoEnemy,
                                                     !.siguiente = None,
                                                     !.dmg = <<dmg1>>],
                                        trpg.siguiente)
                  /\ Hecho("t_gana")
             ELSE \E v2 \in Variaciones :
                    LET dmg2 == DanoCombate(herido.attack, v2, trpg.player.defense)
                        p2   == [trpg.player EXCEPT !.hp = @ - dmg2]
                    IN  IF Player_is_alive(p2)
                        THEN /\ trpg' = [trpg EXCEPT !.enemy = herido,
                                                     !.player = p2,
                                                     !.dmg = <<dmg1, dmg2>>]
                             /\ Hecho("t_ronda")
                        ELSE /\ trpg' = FinDeTurno([trpg EXCEPT !.enemy = NoEnemy,
                                                                !.siguiente = None,
                                                                !.player = p2,
                                                                !.dmg = <<dmg1, dmg2>>],
                                                   trpg.siguiente)
                             /\ Hecho("t_pierde")
    /\ UNCHANGED <<jugador, salas, misiones, objetos, enemigos_template, presentadas,
                   enemigo_actual, running, archivo, sala_encuentro, derrotas,
                   repetidos, golpes>>

-----------------------------------------------------------------------------
(* SpecTexto: text_rpg.py started with no savegame.json or with one that an  *)
(* earlier session wrote, the saved hp drawn from a bounded range            *)

\* The scenes that offer "Guardar partida"
EscenasConGuardar ==
    {k \in DOMAIN Scenes :
        \E i \in 1 .. Len(Scenes[k]) : Scenes[k][i].action = "save"}

SavesPrevios ==
    {NoSave} \cup
    {[existe |-> TRUE, player |-> [Player EXCEPT !.hp = h], current |-> c] :
        h \in 1 .. MaxHpGuardado, c \in EscenasConGuardar}

\* The variables of rpg_texto.py while text_rpg.py is the program running
SinJuego ==
    /\ jugador = JugadorNuevo
    /\ salas = SeedSalas
    /\ misiones = SeedMisiones
    /\ objetos = SeedObjetos
    /\ enemigos_template = SeedEnemigos
    /\ enemigo_actual = NoEnemigo
    /\ running = TRUE
    /\ archivo = NoArchivo
    /\ sala_encuentro = None
    /\ presentadas = 0
    /\ derrotas = [e \in IdsEnemigos |-> 0]
    /\ golpes = SinRegistro
    /\ repetidos = 0

InitTexto ==
    /\ SinJuego
    /\ ultimo = "inicio"
    /\ pasos = 0
    /\ \E save \in SavesPrevios : trpg = Game(save)

NextTexto ==
    /\ pasos < MaxPasosTexto
    /\ \/ \E cargar \in BOOLEAN : T_Start(cargar)
       \/ \E i \in 1 .. 3 : T_Elegir(i)
       \/ T_Ronda

SpecTexto == InitTexto /\ [][NextTexto]_vars

-----------------------------------------------------------------------------
(* SpecDerrota: either program, started where the player can fall soon:      *)
(* rpg_texto.py in the forest with little vida and perhaps poisoned, or      *)
(* text_rpg.py as in SpecTexto                                               *)

InitDerrota ==
    \/ /\ \E v \in 1 .. MaxVidaDerrota,
             est \in {e \in EstadosPrueba : DOMAIN e \subseteq {"veneno"}} :
            jugador = [JugadorNuevo EXCEPT
                          !.sala = SeedSalas["pueblo"].conexiones["norte"],
                          !.vida = v, !.estados = est]
       /\ salas = SeedSalas
       /\ misiones = SeedMisiones
       /\ objetos = SeedObjetos
       /\ enemigos_template = SeedEnemigos
       /\ enemigo_actual = NoEnemigo
       /\ running = TRUE
       /\ archivo = NoArchivo
       /\ ultimo = "inicio"
       /\ sala_encuentro = None
       /\ presentadas = 0
       /\ derrotas = [e \in IdsEnemigos |-> 0]
       /\ golpes = SinRegistro
       /\ repetidos = 0
       /\ pasos = 0
       /\ trpg = NoTrpg
    \/ InitTexto

NextDerrota ==
    \/ /\ ~trpg.activo
       /\ pasos < MaxPasosDerrota
       /\ \/ \E d \in Direcciones \cup {NoArg} : cmd_ir(d)
          \/ \E o \in IdsObjetos \cup {NoArg} : cmd_tomar(o)
          \/ \E o \in IdsObjetos \cup {NoArg} : cmd_soltar(o)
          \/ \E o \in IdsObjetos \cup {NoArg} : cmd_usar(o)
          \/ \E o \in IdsObjetos \cup {NoArg} : cmd_equipar(o)
          \/ \E sl \in Slots \cup {NoArg} : cmd_desequipar(sl)
          \/ \E a \in ArgsAtacar : cmd_atacar(a)
          \/ cmd_huir
          \/ cmd_santuario
          \/ cmd_guardar
          \/ cmd_cargar
          \/ \E r \in BOOLEAN : cmd_salir(r)
          \/ cmd_consulta
          \/ VerboDesconocido
    \/ /\ trpg.activo
       /\ NextTexto

SpecDerrota == InitDerrota /\ [][NextDerrota]_vars

-----------------------------------------------------------------------------
(* SpecCargar: the game constructed from SEED with SAVE_FILE absent, not     *)
(* JSON, of another version, written by an earlier session, or with some of  *)
(* its three records absent or refused by their constructors                 *)

\* What an earlier session wrote after taking the antidote in the forest
GuardadoPrevio ==
    [existe |-> TRUE, legible |-> TRUE, version |-> VERSION,
     jugador |-> Jugador_a_json(
                   [JugadorNuevo EXCEPT !.sala = "bosque", !.oro = 10,
                                        !.inventario = [antidoto |-> 1]]),
     salas |-> [SeedSalas EXCEPT !["bosque"].objetos = <<>>],
     misiones |-> [SeedMisiones EXCEPT !["madera"].progreso = 1,
                                       !["madera"].completada = TRUE]]

ArchivosPrueba ==
    {NoArchivo, [existe |-> TRUE, legible |-> FALSE],
     [GuardadoPrevio EXCEPT !.version = VERSION + 1]}
    \cup
    {[GuardadoPrevio EXCEPT
         !.jugador = IF "jugador" \in S THEN Malformado ELSE @,
         !.salas = IF "salas" \in S THEN Malformado ELSE @,
         !.misiones = IF "misiones" \in S THEN Malformado ELSE @] :
       S \in SUBSET {"jugador", "salas", "misiones"}}

InitCargar ==
    /\ jugador = JugadorNuevo
    /\ salas = SeedSalas
    /\ misiones = SeedMisiones
    /\ objetos = SeedObjetos
    /\ enemigos_template = SeedEnemigos
    /\ enemigo_actual = NoEnemigo
    /\ running = TRUE
    /\ archivo \in ArchivosPrueba
    /\ ultimo = "inicio"
    /\ sala_encuentro = None
    /\ presentadas = 0
    /\ derrotas = [e \in IdsEnemigos |-> 0]
    /\ golpes = SinRegistro
    /\ repetidos = 0
    /\ pasos = 0
    /\ trpg = NoTrpg

NextCargar ==
    /\ pasos < MaxPasosCargar
    /\ \/ \E d \in Direcciones \cup {NoArg} : cmd_ir(d)
       \/ \E o \in IdsObjetos \cup {NoArg} : cmd_tomar(o)
       \/ cmd_guardar
       \/ cmd_cargar

SpecCargar == InitCargar /\ [][NextCargar]_vars

-----------------------------------------------------------------------------
(* SpecSantuario: the player at the sanctuary of the first room, with gold   *)
(* and status effects drawn from bounded sets                                *)

InitSantuario ==
    /\ \E oro \in 0 .. MaxOroSantuario, est \in EstadosPrueba :
         jugador = [JugadorNuevo EXCEPT !.oro = oro, !.estados = est]
    /\ salas = SeedSalas
    /\ misiones = SeedMisiones
    /\ objetos = SeedObjetos
    /\ enemigos_template = SeedEnemigos
    /\ enemigo_actual = NoEnemigo
    /\ running = TRUE
    /\ archivo = NoArchivo
    /\ ultimo = "inicio"
    /\ sala_encuentro = None
    /\ presentadas = 0
    /\ derrotas = [e \in IdsEnemigos |-> 0]
    /\ golpes = SinRegistro
    /\ repetidos = 0
    /\ pasos = 0
    /\ trpg = NoTrpg

NextSantuario ==
    /\ pasos < MaxPasosSantuario
    /\ cmd_santuario

SpecSantuario == InitSantuario /\ [][NextSantuario]_vars

-----------------------------------------------------------------------------
(* SpecAturdido: Juego constructed from the data of SEED with status effects  *)
(* on the goblin's template, the player in the goblin's room; the attack     *)
(* command                                                                   *)

EstadosEnemigoPrueba ==
    UNION {[S -> 1 .. MaxTurnos] : S \in SUBSET {"aturdido", "veneno"}}

InitAturdido ==
    /\ jugador = [JugadorNuevo EXCEPT !.sala = SeedSalas["pueblo"].conexiones["norte"]]
    /\ salas = SeedSalas
    /\ misiones = SeedMisiones
    /\ objetos = SeedObjetos
    /\ \E est \in EstadosEnemigoPrueba :
         enemigos_template = [SeedEnemigos EXCEPT !["goblin"].estados = est]
    /\ enemigo_actual = NoEnemigo
    /\ running = TRUE
    /\ archivo = NoArchivo
    /\ ultimo = "inicio"
    /\ sala_encuentro = None
    /\ presentadas = 0
    /\ derrotas = [e \in IdsEnemigos |-> 0]
    /\ golpes = SinRegistro
    /\ repetidos = 0
    /\ pasos = 0
    /\ trpg = NoTrpg

NextAturdido ==
    /\ pasos < MaxPasosAturdido
    /\ \E a \in ArgsAtacar : cmd_atacar(a)

SpecAturdido == InitAturdido /\ [][NextAturdido]_vars

-----------------------------------------------------------------------------
(* SpecLobo: text_rpg.combat from its first line, for the encounter that the  *)
(* first option of bosque creates, entered with any hp the player can have;  *)
(* the passes of its loop, with no bound on their number                     *)

HpsEntrada == 1 .. Player.hp

InitLobo ==
    /\ SinJuego
    /\ ultimo = "inicio"
    /\ pasos = 0
    /\ \E hp \in HpsEntrada :
         trpg = [Game(NoSave) EXCEPT !.player = [Player EXCEPT !.hp = hp],
                                     !.current = "bosque",
                                     !.enemy = Lobo,
                                     !.siguiente = Scenes["bosque"][1].next,
                                     !.fase = "combate"]

NextLobo == T_Ronda

SpecLobo == InitLobo /\ [][NextLobo]_vars

-----------------------------------------------------------------------------
(* Claims *)

\* C1.  Every damage value calcular_dano returns is at least 1, whatever the
\* attack, the defense, the variance roll in -2..2 and the critical outcome.
C1_DanoMinimo ==
    \A i \in 1 .. Len(golpes.tiradas) : golpes.tiradas[i].dano >= 1

\* A critical call whose attack + variance - defense is below the floor
C1_Witness ==
    \E i \in 1 .. Len(golpes.tiradas) :
        LET t == golpes.tiradas[i]
        IN  t.atq + t.variacion - t.defe < 0 /\ t.critico /\ t.dano = 1

\* The damage formula of the specification: max(1, atq + v - defe), and on a
\* critical roll that value times 1.5, truncated
DanoReferencia(atq, defe, v, critico) ==
    LET d == IF atq + v - defe > 1 THEN atq + v - defe ELSE 1
    IN  IF critico THEN d + (d \div 2) ELSE d

C2_Caso == enemigos_template["goblin"].vida = 10
           /\ enemigos_template["goblin"].defensa = 1

\* C2.  The damage of the player's blow in cmd_atacar is the reference
\* max(1, atq + v - defe), times 1.5 truncated on a critical roll; with attack
\* 5 against defense 1, variance 0 and no critical a blow deals exactly 4, an
\* enemy of 10 hit points is alive with 6 and then 2 after the first two such
\* blows, and the third resolves the encounter to Victory.
C2_DanoReferencia ==
    /\ \A i \in 1 .. Len(golpes.tiradas) :
          LET t == golpes.tiradas[i]
          IN  t.dano = DanoReferencia(t.atq, t.defe, t.variacion, t.critico)
    /\ (/\ C2_Caso
        /\ ultimo \in {"ronda", "victoria", "derrota"}
        /\ golpes.base
        /\ golpes.tiradas[1].atq = 5
        /\ golpes.tiradas[1].defe = 1)
       => /\ golpes.tiradas[1].dano = 4
          /\ golpes.n \in {1, 2} =>
                /\ ultimo = "ronda"
                /\ enemigo_actual # NoEnemigo
                /\ enemigo_actual.vida = 10 - 4 * golpes.n
          /\ golpes.n >= 3 =>
                /\ golpes.n = 3
                /\ ultimo = "victoria"
                /\ enemigo_actual = NoEnemigo
                /\ derrotas["goblin"] = 1

\* The third blow of the scenario has resolved the encounter
C2_Witness ==
    /\ C2_Caso
    /\ ultimo = "victoria"
    /\ golpes.base
    /\ golpes.n = 3
    /\ golpes.tiradas[1].atq = 5
    /\ golpes.tiradas[1].defe = 1

\* C3.  A blow of cmd_atacar that leaves the enemy with hp <= 0 resolves the
\* encounter to Victory in that command, and the enemy does not strike back:
\* the player's hp and status effects are what they were before the command.
\* A command that ends with the enemy's turn leaves the enemy alive.
C3_SinRepresalia ==
    [][/\ ultimo' = "victoria" =>
            /\ jugador'.vida = jugador.vida
            /\ jugador'.estados = jugador.estados
            /\ enemigo_actual' = NoEnemigo
       /\ ultimo' \in {"ronda", "derrota"} => enemigo_actual'.vida > 0]_vars

\* A blow has just killed an enemy while the player was already wounded
C3_Witness == ultimo = "victoria" /\ jugador.vida < jugador.vida_max

\* The event a step raises, <<tipo, objetivo>>, or <<>> when it raises none
C4_Evento ==
    IF pasos' # pasos + 1 THEN <<>>
    ELSE IF ultimo' = "ir" THEN <<"visitar", jugador'.sala>>
    ELSE IF ultimo' = "tomar"
    THEN <<"recolectar",
           CHOOSE o \in IdsObjetos :
               Get(jugador'.inventario, o, 0) = Get(jugador.inventario, o, 0) + 1>>
    ELSE IF ultimo' = "victoria"
    THEN <<"derrotar", CHOOSE e \in IdsEnemigos : derrotas'[e] = derrotas[e] + 1>>
    ELSE <<>>

RECURSIVE C4_OroMisiones(_)
C4_OroMisiones(pendientes) ==
    IF pendientes = {} THEN 0
    ELSE LET k == CHOOSE x \in pendientes : TRUE
         IN  (IF misiones'[k].completada /\ ~misiones[k].completada
              THEN misiones[k].recompensa["oro"] ELSE 0)
             + C4_OroMisiones(pendientes \ {k})

\* C4.  actualizar_misiones grants a reward exactly once.  In every step other
\* than a load: a mission that is not completed and whose (tipo, objetivo) is
\* the step's event gains exactly 1 progreso and becomes completada exactly
\* when progreso reaches cantidad; every other mission, and every completed
\* one, is left as it was; and the player's gold grows by the gold of the
\* enemy defeated in the step plus the rewards of the missions the step
\* completed, each counted once.
C4_RecompensaUnaVez ==
    [][ultimo' \notin {"cargar", "sin_oro", "curar_uno", "curar_todo"} =>
        /\ \A k \in DOMAIN misiones :
              LET a == misiones[k]
                  d == misiones'[k]
                  coincide == /\ C4_Evento # <<>>
                              /\ a.tipo = C4_Evento[1]
                              /\ a.objetivo = C4_Evento[2]
              IN  IF coincide /\ ~a.completada
                  THEN /\ d = [a EXCEPT !.progreso = a.progreso + 1,
                                        !.completada = d.completada]
                       /\ d.completada = (d.progreso >= a.cantidad)
                  ELSE d = a
        /\ jugador'.oro = jugador.oro + C4_OroMisiones(DOMAIN misiones)
              + (IF C4_Evento # <<>> /\ C4_Evento[1] = "derrotar"
                 THEN enemigos_template[C4_Evento[2]].oro ELSE 0)]_vars

\* The antidote was taken a third time after two takes completed and rewarded
\* its mission
C4_Witness ==
    /\ repetidos >= 1
    /\ ultimo = "tomar"
    /\ misiones["madera"].cantidad = 2
    /\ misiones["madera"].completada
    /\ misiones["madera"].progreso = 2
    /\ jugador.oro = 10

\* The bonus that the item in a slot gives to a stat, read from the catalog
C5_Bono(slot, stat) ==
    IF jugador.equipo[slot] = None THEN 0
    ELSE Get(objetos[jugador.equipo[slot]].efecto, stat, 0)

\* C5: in every reachable state the player's ataque is 5 plus the ataque
\* bonuses of the items in the three equip slots, and the player's defensa is
\* 2 plus their defensa bonuses.
C5_EstadisticasEquipo ==
    /\ DOMAIN jugador.equipo = Slots
    /\ jugador.ataque = 5 + C5_Bono("arma", "ataque") + C5_Bono("armadura", "ataque")
                          + C5_Bono("accesorio", "ataque")
    /\ jugador.defensa = 2 + C5_Bono("arma", "defensa")
                           + C5_Bono("armadura", "defensa")
                           + C5_Bono("accesorio", "defensa")

\* With the second weapon and the armour equipped the player has won a fight
C5_Witness ==
    /\ ultimo = "victoria"
    /\ jugador.equipo["arma"] = "espada_fina"
    /\ jugador.equipo["armadura"] = "armadura_cuero"
    /\ jugador.ataque = 5 + objetos["espada_fina"].efecto["ataque"]
    /\ jugador.ataque > 7
    /\ jugador.defensa = 4

\* C6: a call of recalcular_equipo changes nothing but the player's ataque and
\* defensa, and a call that follows another call changes nothing at all.
C6_Idempotente ==
    [][ultimo' = "recalcular" =>
         /\ [jugador' EXCEPT !.ataque = 0, !.defensa = 0]
              = [jugador EXCEPT !.ataque = 0, !.defensa = 0]
         /\ UNCHANGED <<salas, misiones, objetos, enemigos_template, presentadas, trpg,
                        enemigo_actual, running, archivo>>
         /\ (ultimo = "recalcular" => jugador' = jugador)]_vars

\* Two calls in a row on a player who wears the second weapon and the armour
C6_Witness ==
    /\ ultimo = "recalcular"
    /\ pasos = 2
    /\ jugador.equipo["arma"] = "espada_fina"
    /\ jugador.equipo["armadura"] = "armadura_cuero"
    /\ jugador.ataque = 5 + objetos["espada_fina"].efecto["ataque"]
    /\ jugador.defensa = 4

\* The inventory count of an item, 0 when the inventory does not hold it
C7_Cuenta(j, x) == Get(j.inventario, x, 0)

\* C7: a command that equips item o into slot s puts o into s and touches no
\* other slot; the item that was in s, if any, gains one unit in the
\* inventory and o loses one; ataque and defensa become the old value less
\* the bonus of the item that left plus the bonus of o, so that a bonus is
\* counted once.
C7_Reemplazo ==
    [][ultimo' \in {"equipar", "reemplazo"} =>
         \E s \in Slots :
            LET o      == jugador'.equipo[s]
                actual == jugador.equipo[s]
                sale(stat) == IF actual = None THEN 0
                              ELSE Get(objetos[actual].efecto, stat, 0)
                entra(stat) == Get(objetos[o].efecto, stat, 0)
            IN  /\ o # None
                /\ objetos[o].efecto["slot"] = s
                /\ (ultimo' = "reemplazo") = (actual # None)
                /\ jugador'.equipo = [jugador.equipo EXCEPT ![s] = o]
                /\ \A x \in IdsObjetos :
                      C7_Cuenta(jugador', x) =
                         C7_Cuenta(jugador, x)
                           + (IF x = actual THEN 1 ELSE 0)
                           - (IF x = o THEN 1 ELSE 0)
                /\ DOMAIN jugador'.inventario \subseteq IdsObjetos
                /\ jugador'.ataque = jugador.ataque - sale("ataque") + entra("ataque")
                /\ jugador'.defensa = jugador.defensa - sale("defensa")
                                         + entra("defensa")]_vars

\* A +2 weapon went into the slot that held the other +2 weapon: the other
\* one is back in the inventory and ataque is 7
C7_Witness ==
    /\ ultimo = "reemplazo"
    /\ objetos["espada_fina"].efecto["ataque"] = 2
    /\ jugador.equipo["arma"] = "espada_oxidada"
    /\ C7_Cuenta(jugador, "espada_fina") = 1
    /\ C7_Cuenta(jugador, "espada_oxidada") = 0
    /\ jugador.ataque = 7

\* C8: in every reachable state the player's vida is at least 0 and at most
\* vida_max; aplicar_estados never leaves it negative.
C8_VidaEnRango ==
    /\ jugador.vida >= 0
    /\ jugador.vida <= jugador.vida_max

\* aplicar_estados has just taken the poisoned player's vida below 0
C8_Witness ==
    /\ ultimo = "tick_jugador"
    /\ jugador.vida < 0

\* What C9 asks of one call of aplicar_estados that takes estados a to b:
\* an effect with one turn left is removed, any other has one turn less
C9_Decae(a, b) ==
    /\ DOMAIN b \subseteq DOMAIN a
    /\ \A e \in DOMAIN a :
          IF a[e] = 1 THEN e \notin DOMAIN b
          ELSE e \in DOMAIN b /\ b[e] = a[e] - 1

\* C9: each call of aplicar_estados on an entity takes 1 from the remaining
\* turns of each of its effects, and removes the effect when that reaches 0.
C9_DecrementoPorLlamada ==
    [][/\ ultimo' = "tick_jugador" => C9_Decae(jugador.estados, jugador'.estados)
       /\ ultimo' = "tick_enemigo" =>
             C9_Decae(enemigo_actual.estados, enemigo_actual'.estados)]_vars

\* A bleed that started with one turn left is still there after three calls
C9_Witness ==
    /\ pasos = 3
    /\ ultimo = "tick_jugador"
    /\ "sangrado" \in DOMAIN jugador.estados
    /\ jugador.estados["sangrado"] = 1
    /\ enemigo_actual.estados = jugador.estados
    /\ enemigo_actual.vida = jugador.vida + 3

\* The room in which the enemy struck by the next blow was engaged
C10_SalaEncuentro == IF EnCombate THEN sala_encuentro ELSE jugador.sala

\* C10: a command that resolves an encounter to Victory leaves the defeated
\* enemy's id out of the enemy list of the room in which it was engaged, and
\* leaves no encounter.
C10_VictoriaRetira ==
    [][ultimo' = "victoria" =>
         \E e \in IdsEnemigos :
            /\ derrotas'[e] = derrotas[e] + 1
            /\ ~EnLista(salas'[C10_SalaEncuentro].enemigos, e)
            /\ enemigo_actual' = NoEnemigo]_vars

\* The goblin engaged in the forest was defeated in the village and is still
\* listed in the forest
C10_Witness ==
    /\ ultimo = "victoria"
    /\ derrotas["goblin"] = 1
    /\ jugador.sala = "pueblo"
    /\ EnLista(salas["bosque"].enemigos, "goblin")
    /\ enemigo_actual = NoEnemigo

\* The number of times item x occurs in a loot list
RECURSIVE C11_Veces(_, _)
C11_Veces(botin, x) ==
    IF botin = <<>> THEN 0
    ELSE (IF Head(botin) = x THEN 1 ELSE 0) + C11_Veces(Tail(botin), x)

\* What a step that defeats enemy e gives apart from xp: the enemy's gold
\* (next to the gold of the missions the step completes), one unit of each
\* item of its loot list, and one "derrotar e" event for the open missions
C11_OroBotinEvento(e) ==
    /\ jugador'.oro = jugador.oro + enemigos_template[e].oro
                         + C4_OroMisiones(DOMAIN misiones)
    /\ \A x \in IdsObjetos :
          Get(jugador'.inventario, x, 0) =
             Get(jugador.inventario, x, 0) + C11_Veces(enemigos_template[e].botin, x)
    /\ \A k \in DOMAIN misiones :
          (/\ misiones[k].tipo = "derrotar"
           /\ misiones[k].objetivo = e
           /\ ~misiones[k].completada)
             => misiones'[k].progreso = misiones[k].progreso + 1

\* The same without the xp, which does hold of every Victory
C11_SinXp ==
    [][ultimo' = "victoria" =>
         \E e \in IdsEnemigos :
            derrotas'[e] = derrotas[e] + 1 /\ C11_OroBotinEvento(e)]_vars

\* C11: a step that resolves to Victory over enemy e gives the player the
\* enemy's gold, its loot and the "derrotar e" quest event, and raises the
\* player's xp.
C11_RecompensasVictoria ==
    [][ultimo' = "victoria" =>
         \E e \in IdsEnemigos :
            /\ derrotas'[e] = derrotas[e] + 1
            /\ C11_OroBotinEvento(e)
            /\ jugador'.xp > jugador.xp]_vars

\* The goblin was defeated: its gold, its potion and the hunter's reward
\* arrived, and xp is still 0
C11_Witness ==
    /\ ultimo = "victoria"
    /\ derrotas["goblin"] = 1
    /\ jugador.oro = 20
    /\ Get(jugador.inventario, "pocion", 0) = 1
    /\ misiones["cazador"].completada
    /\ jugador.xp = 0

\* The player of the program that is running is alive and its loop has not
\* ended
C12_EnJuego ==
    IF trpg.activo
    THEN /\ trpg.fase # "fin"
         /\ trpg.player # NoPlayer => trpg.player.hp > 0
    ELSE running /\ jugador.vida > 0

\* C12: Defeat is terminal.  Every step of either program starts in a state
\* in which the player is alive and the loop has not ended: from a state in
\* which the player's hp is 0 or less no command is dispatched and no pass of
\* the loop of Game.start is made, so no later state has the player alive.
C12_DerrotaTerminal == [][C12_EnJuego]_vars

\* The player fell to the blow of a failed flee, which leaves running set
C12_Witness ==
    /\ ~trpg.activo
    /\ ultimo = "falla"
    /\ jugador.vida = 0
    /\ running

\* The other ways to fall: the enemy's blow in cmd_atacar, poison after it,
\* and a lost combat in text_rpg.py
C12_OtrasDerrotas ==
    \/ ~trpg.activo /\ ultimo = "derrota" /\ jugador.vida = 0 /\ ~running
    \/ ~trpg.activo /\ ultimo = "ronda" /\ jugador.vida <= 0
    \/ trpg.activo /\ ultimo = "t_pierde" /\ trpg.fase = "fin"

\* The save document can be loaded whole
C13_Cargable ==
    /\ archivo.existe
    /\ archivo.legible
    /\ archivo.version = VERSION
    /\ archivo.jugador # Malformado
    /\ archivo.salas # Malformado
    /\ archivo.misiones # Malformado

\* C13: a cargar command replaces jugador, salas and misiones together when
\* the save document can be loaded whole, and otherwise leaves all three as
\* they were.
C13_TodoONada ==
    [][ultimo' \in {"cargar", "no_cargado", "excepcion"} =>
         IF C13_Cargable
         THEN /\ jugador' = Jugador_de_json(archivo.jugador)
              /\ salas' = archivo.salas
              /\ misiones' = archivo.misiones
         ELSE UNCHANGED <<jugador, salas, misiones>>]_vars

\* The load raised on the rooms: the player is the saved one, in the forest
\* with the antidote, and the rooms and the missions are not the saved ones
C13_Witness ==
    /\ ultimo = "excepcion"
    /\ pasos = 1
    /\ jugador.sala = "bosque"
    /\ Get(jugador.inventario, "antidoto", 0) = 1
    /\ salas = SeedSalas
    /\ misiones = SeedMisiones

C15_SinOroSinEfecto ==
    [][ultimo' = "sin_oro" =>
         /\ jugador'.oro = jugador.oro
         /\ jugador'.estados = jugador.estados]_vars

\* With no gold and poisoned, the player asked for a cure and has 5 gold
C15_Witness ==
    /\ ultimo = "sin_oro"
    /\ pasos = 1
    /\ jugador.oro = 5
    /\ DOMAIN jugador.estados = {"veneno"}

C17_Huir ==
    [][ultimo' \in {"escapa", "falla", "sin_pelea"} =>
         /\ UNCHANGED <<salas, misiones, running, archivo>>
         /\ (ultimo' \in {"escapa", "falla"}) = EnCombate
         /\ ultimo' = "escapa" =>
               enemigo_actual' = NoEnemigo /\ jugador' = jugador
         /\ ultimo' = "falla" =>
               /\ enemigo_actual' = enemigo_actual
               /\ \E v \in Variaciones, c \in BOOLEAN :
                     jugador' =
                        [jugador EXCEPT !.vida =
                            Max(0, jugador.vida -
                                   DanoReferencia(enemigo_actual.ataque,
                                                  jugador.defensa, v, c))]
         /\ ultimo' = "sin_pelea" =>
               enemigo_actual' = enemigo_actual /\ jugador' = jugador]_vars

\* The flee failed: the wounded goblin is still engaged and the player has
\* taken its blow
C17_Witness ==
    /\ ultimo = "falla"
    /\ EnCombate
    /\ enemigo_actual.id = "goblin"
    /\ enemigo_actual.vida < enemigo_actual.vida_max
    /\ jugador.vida < jugador.vida_max
    /\ jugador.vida > 0

\* What C18 asks of a step: no mission goes from completed to open, and no
\* progreso decreases
C18_Paso ==
    \A k \in DOMAIN misiones :
       /\ k \in DOMAIN misiones'
       /\ misiones[k].completada => misiones'[k].completada
       /\ misiones'[k].progreso >= misiones[k].progreso

\* C18, as stated: under any sequence of commands, guardar and cargar
\* included, a completed mission stays completed and no progreso decreases.
C18_Monotonia == [][C18_Paso]_vars

\* C18, amended: the same of every command but a cargar that loads, which
\* sets the missions to those of the save document.
C18_MonotoniaSinCarga ==
    [][IF ultimo' = "cargar"
       THEN misiones' = archivo.misiones
       ELSE C18_Paso]_vars

\* The antidote was taken again after its mission was completed: the mission
\* is still completed, with the progreso and the gold of the first time
C18_Witness ==
    /\ ultimo = "tomar"
    /\ repetidos = 1
    /\ misiones["madera"].completada
    /\ misiones["madera"].progreso = 1
    /\ jugador.oro = 10

\* The commands atacar that went through leave one of these tags
C19_TrasAtacar == ultimo' \in {"ronda", "victoria", "derrota"}

\* The blow of the step fell on the instance that was engaged: it is left with
\* its vida less one outcome of calcular_dano (and its status tick), or it is
\* the one whose defeat is counted
C19_MismaInstancia ==
    \E t \in Danos(jugador.ataque, enemigo_actual.defensa) :
       LET herido == [enemigo_actual EXCEPT !.vida = @ - t.dano]
       IN  IF Enemigo_esta_vivo(herido)
           THEN enemigo_actual' = aplicar_estados(herido)
           ELSE /\ ultimo' = "victoria"
                /\ enemigo_actual' = NoEnemigo
                /\ derrotas' = [derrotas EXCEPT ![enemigo_actual.id] = @ + 1]

\* C19: with an encounter under way, an atacar with any argument strikes the
\* engaged instance, damage so far included, and prints no intro line; the
\* intro line of a boss is printed once, by the atacar that clones it.
C19_ContinuaEncuentro ==
    [][/\ (EnCombate /\ C19_TrasAtacar) =>
             /\ C19_MismaInstancia
             /\ presentadas' = presentadas
       /\ (~EnCombate /\ C19_TrasAtacar) =>
             \E e \in IdsEnemigos :
                presentadas' = IF enemigos_template[e].jefe THEN 1 ELSE 0]_vars

\* The boss was struck a second time: it carries the damage of two blows and
\* its intro line was printed once
C19_Witness ==
    /\ ultimo = "ronda"
    /\ pasos = 3
    /\ enemigo_actual # NoEnemigo
    /\ enemigo_actual.jefe
    /\ enemigo_actual.vida <= enemigo_actual.vida_max - 2
    /\ presentadas = 1

\* C20: every damage value dealt in a round of text_rpg.combat, by the player
\* and by the enemy, is at least 1.
C20_DanoMinimoTexto ==
    trpg.activo => \A i \in 1 .. Len(trpg.dmg) : trpg.dmg[i] >= 1

\* The Lobo (attack 4) drew -2 against the player's defense 2: the round went
\* on with a blow of 0 and the player's hp as it was
C20_Witness ==
    /\ trpg.activo
    /\ ultimo = "t_ronda"
    /\ Len(trpg.dmg) = 2
    /\ trpg.dmg[1] >= 1
    /\ trpg.dmg[2] = 0
    /\ trpg.player.hp = Player.hp

\* The hp the player's own status effects take in one tick
C21_DanoPropio == SumaDanoEstados(jugador.estados, DOMAIN jugador.estados)

\* C21: in a round of cmd_atacar in which the enemy is stunned when its turn
\* comes, the enemy does not strike: the player's vida is not reduced by an
\* enemy attack.
C21_AturdidoNoAtaca ==
    [][(/\ ultimo' \in {"ronda", "derrota"}
        /\ enemigo_actual' # NoEnemigo
        /\ "aturdido" \in DOMAIN enemigo_actual'.estados)
         => jugador'.vida >= jugador.vida - C21_DanoPropio]_vars

\* A round has ended with the goblin still stunned and the player, who has
\* no status effect, wounded
C21_Witness ==
    /\ ultimo = "ronda"
    /\ enemigo_actual # NoEnemigo
    /\ "aturdido" \in DOMAIN enemigo_actual.estados
    /\ jugador.estados = <<>>
    /\ jugador.vida < jugador.vida_max

\* The hp veneno or quemadura may take in one tick, by C22
C22_Fijo(est, e) == IF e \in DOMAIN est THEN {2, 3} ELSE {0}

\* What C22 asks of one call of aplicar_estados that takes an entity from a
\* to b: the vida lost is the sum of the per-effect amounts, the bleed
\* taking the stored amount, and a bleed that stays takes 1 more next time
C22_Tick(a, b) ==
    LET t == IF "sangrado" \in DOMAIN a.estados THEN a.estados["sangrado"] ELSE 0
    IN  /\ \E pv \in C22_Fijo(a.estados, "veneno"),
              pq \in C22_Fijo(a.estados, "quemadura") :
                 a.vida - b.vida = pv + pq + t
        /\ ("sangrado" \in DOMAIN a.estados /\ "sangrado" \in DOMAIN b.estados)
              => b.estados["sangrado"] = t + 1

\* C22: each tick of aplicar_estados takes 2 or 3 hp for veneno, 2 or 3 hp for
\* quemadura, and for sangrado 1 hp more than the tick before.
C22_SangradoCreciente ==
    [][/\ ultimo' = "tick_jugador" => C22_Tick(jugador, jugador')
       /\ ultimo' = "tick_enemigo" => C22_Tick(enemigo_actual, enemigo_actual')]_vars

\* Two ticks of a bleed of 2 and nothing else took 2 hp each from the player;
\* the enemy, drawn with the same vida, was not ticked
C22_Witness ==
    /\ pasos = 2
    /\ ultimo = "tick_jugador"
    /\ DOMAIN jugador.estados = {"sangrado"}
    /\ jugador.estados["sangrado"] = 2
    /\ enemigo_actual.estados = jugador.estados
    /\ jugador.vida = enemigo_actual.vida - 4

\* C23: while an encounter is active the room the player stands in lists the
\* engaged enemy's id, so no enemy absent from that room is struck.
C23_EnemigoEnSala ==
    EnCombate => EnLista(sala_actual.enemigos, enemigo_actual.id)

\* The player walked away from the engaged enemy and struck it from a room
\* that does not list it
C23_Witness ==
    /\ ultimo = "ronda"
    /\ EnCombate
    /\ jugador.sala # sala_encuentro
    /\ ~EnLista(sala_actual.enemigos, enemigo_actual.id)
    /\ enemigo_actual.vida < enemigo_actual.vida_max
    /\ pasos = 4

\* The item ids of the catalog and of the enemies' loot
C24_Ids ==
    IdsObjetos \cup
    UNION {{enemigos_template[e].botin[i] :
               i \in 1 .. Len(enemigos_template[e].botin)} : e \in IdsEnemigos}

\* The units of item x in the object lists of the rooms R
RECURSIVE C24_EnSalas(_, _, _)
C24_EnSalas(ss, R, x) ==
    IF R = {} THEN 0
    ELSE LET r == CHOOSE k \in R : TRUE
         IN  C11_Veces(ss[r].objetos, x) + C24_EnSalas(ss, R \ {r}, x)

\* The units of item x in the inventory, the equip slots and the rooms
C24_Total(j, ss, x) ==
    Get(j.inventario, x, 0)
    + Cardinality({sl \in DOMAIN j.equipo : j.equipo[sl] = x})
    + C24_EnSalas(ss, DOMAIN ss, x)

\* The change of the total of item x in the step
C24_Cambio(x) ==
    IF /\ jugador'.inventario = jugador.inventario
       /\ jugador'.equipo = jugador.equipo
       /\ salas' = salas
    THEN 0
    ELSE C24_Total(jugador', salas', x) - C24_Total(jugador, salas, x)

\* What C24 says of a step, apart from the steps tagged in libres: usar
\* takes one unit of one item, victoria adds the loot of the enemy defeated,
\* every other command leaves every total as it was
C24_Paso(libres) ==
    CASE ultimo' \in libres -> TRUE
      [] ultimo' = "usar" ->
            \E o \in IdsObjetos :
               \A x \in C24_Ids : C24_Cambio(x) = IF x = o THEN -1 ELSE 0
      [] ultimo' = "victoria" ->
            \E e \in IdsEnemigos :
               /\ derrotas'[e] = derrotas[e] + 1
               /\ \A x \in C24_Ids :
                     C24_Cambio(x) = C11_Veces(enemigos_template[e].botin, x)
      [] OTHER -> \A x \in C24_Ids : C24_Cambio(x) = 0

\* C24, as stated: the units of every item over inventory, equip slots and
\* rooms are left unchanged by every command; only usar (one unit less) and
\* victoria (the loot more) change them.
C24_Conservacion == [][C24_Paso({})]_vars

\* C24, amended: the same, a cmd_cargar that replaces the player or the rooms
\* by those of the save document apart.
C24_ConservacionSinCarga == [][C24_Paso({"cargar", "excepcion"})]_vars

\* Two rusty swords were taken, one equipped and the other dropped: one is
\* in the slot, one in the room, none in the inventory, and the third is
\* where SEED puts it
C24_Witness ==
    /\ ultimo = "soltar"
    /\ jugador.equipo["arma"] = "espada_oxidada"
    /\ Get(jugador.inventario, "espada_oxidada", 0) = 0
    /\ C24_EnSalas(salas, {jugador.sala}, "espada_oxidada") = 1
    /\ C24_Total(jugador, salas, "espada_oxidada")
          = C11_Veces(ObjetosEquipo, "espada_oxidada")
            + C11_Veces(SeedSalas["ruinas"].objetos, "espada_oxidada")

\* Every entry of the inventory counts at least one unit
C25_Entradas ==
    \A x \in DOMAIN jugador.inventario : jugador.inventario[x] >= 1

\* A step that dropped, used or equipped an item did so with an item of
\* which the inventory held a unit
C25_Paso ==
    /\ ultimo' = "soltar" =>
          \E o \in DOMAIN jugador.inventario :
             /\ jugador.inventario[o] >= 1
             /\ salas' = [salas EXCEPT ![jugador.sala].objetos = Append(@, o)]
    /\ ultimo' = "usar" =>
          \E o \in DOMAIN jugador.inventario :
             /\ jugador.inventario[o] >= 1
             /\ Get(jugador'.inventario, o, 0) = jugador.inventario[o] - 1
    /\ ultimo' \in {"equipar", "reemplazo"} =>
          \E o \in DOMAIN jugador.inventario, sl \in Slots :
             /\ jugador.inventario[o] >= 1
             /\ jugador'.equipo = [jugador.equipo EXCEPT ![sl] = o]

\* C25: every entry of the player's inventory has a count of at least 1 in
\* every reachable state, and an item the inventory does not hold is never
\* dropped, used or equipped.
C25_InventarioPositivo == []C25_Entradas /\ [][C25_Paso]_vars

\* The goblin's potion, the only one held, was used: its entry is gone
C25_Witness ==
    /\ ultimo = "usar"
    /\ derrotas["goblin"] = 1
    /\ "pocion" \notin DOMAIN jugador.inventario

\* The price of curing n effects at once: the largest integer that is not
\* above n x COSTO_ESTADO x 8 / 10
C26_PrecioTodo(n) ==
    CHOOSE c \in 0 .. n * COSTO_ESTADO :
       /\ 10 * c <= 8 * n * COSTO_ESTADO
       /\ 10 * (c + 1) > 8 * n * COSTO_ESTADO

\* What C26 says of a visit to the sanctuary that cures
C26_Paso ==
    /\ ultimo' = "curar_uno" =>
          /\ jugador.oro >= COSTO_ESTADO
          /\ jugador'.oro = jugador.oro - COSTO_ESTADO
          /\ \E e \in DOMAIN jugador.estados :
                jugador'.estados = Del(jugador.estados, e)
    /\ ultimo' = "curar_todo" =>
          LET precio == C26_PrecioTodo(Cardinality(DOMAIN jugador.estados))
          IN  /\ jugador.oro >= precio
              /\ jugador'.oro = jugador.oro - precio
              /\ DOMAIN jugador'.estados = {}

\* C26: the player's gold is never negative; a cure at the sanctuary takes
\* exactly COSTO_ESTADO for one effect, or the discounted price for all of
\* them, only from a player who holds that much, and removes exactly the
\* effects paid for.
C26_OroSantuario == [](jugador.oro >= 0) /\ [][C26_Paso]_vars

\* All the effects were cured at once by a player who held the exact price
C26_Witness ==
    /\ ultimo = "curar_todo"
    /\ pasos = 1
    /\ jugador.oro = 0
    /\ DOMAIN jugador.estados = {}

\* The passes of the loop of combat made so far in a run of SpecLobo
C27_Rondas == pasos

\* How a pass of the loop leaves the combat: won with the Lobo dead and the
\* player alive, lost with the player dead, or going on with both alive
C27_Fin ==
    /\ ultimo' = "t_gana" =>
          /\ trpg'.fase = "escena"
          /\ trpg.enemy.hp - trpg'.dmg[1] <= 0
          /\ Player_is_alive(trpg'.player)
    /\ ultimo' = "t_pierde" =>
          /\ trpg'.fase = "fin"
          /\ ~Player_is_alive(trpg'.player)
    /\ ultimo' = "t_ronda" =>
          /\ trpg'.fase = "combate"
          /\ Enemy_is_alive(trpg'.enemy)
          /\ Player_is_alive(trpg'.player)

\* C27: the combat against the Lobo is over after at most 5 passes of its
\* loop, whatever the rolls, and it ends with the Lobo dead or with the
\* player dead, never with both alive.
C27_CombateTermina ==
    /\ [](trpg.fase = "combate" => C27_Rondas < 5)
    /\ [][C27_Fin]_vars

\* The Lobo fell at the fifth pass, every blow of the player having taken 2
C27_Witness ==
    /\ ultimo = "t_gana"
    /\ C27_Rondas = 5
    /\ trpg.dmg = <<2>>
    /\ trpg.fase = "escena"

====
